---- MODULE Spec2Model ----
(***************************************************************************)
(* Matrices over GF(2) and its polynomial ring (package gof2).             *)
(*                                                                         *)
(* A polynomial (a big.Int) is an object on a heap: heap[a] is the integer *)
(* held by the object at address a.  The polynomial kinds PSM and PFM      *)
(* store addresses, so that storing a reference without copying it and     *)
(* mutating it in place are visible.  The binary kinds SM and FM store     *)
(* bits, FM in a big.Int of its own.  A matrix is a record                 *)
(* [kind, r, c, n, v]:                                                     *)
(*   SM   v is the map of keys (col<<16 | row, zero-based) to 0/1          *)
(*   FM   v is <<a>>, a the address of the big.Int that is the bit vector  *)
(*   PSM  v is the map of keys to addresses                                *)
(*   PFM  v is the column-major array 0..r*c-1 of addresses                *)
(*   I, Z r x c, no storage;  R, S  r = c = size, n the rotate/shift       *)
(***************************************************************************)
EXTENDS Integers, Sequences, FiniteSets, TLC

VARIABLES A, B, C, heap, last, nops

vars == <<A, B, C, heap, last, nops>>

(* ------------------------------ bounds --------------------------------- *)

\* Largest number of elements (rows * cols) of a matrix that the element
\* operations are run on.
MaxCells == 2

\* Number of element operations in one run.
MaxOps == 3

\* Largest number of elements (rows * cols) of a matrix that is converted,
\* and largest number of its non-zero elements.
MaxConvCells == 4

MaxNnz == 2

\* Largest number of elements of a matrix that is written after a
\* conversion, and number of element operations after a conversion.
MaxWriteCells == 2

MaxCalls == 1

\* Largest dimension of an operand of a product, and largest number of
\* elements of an operand that has storage.
MaxMulDim == 3

MaxMulCells == 4

\* Largest number of elements of a matrix that failing calls are made on,
\* and number of failing calls in one run.
MaxFailCells == 2

MaxFails == 1

\* Largest size of a rotation matrix that is read, and largest absolute
\* value of its rotation amount.
MaxRolSize == 3

MaxShift == 6

(* ----------------------- integers and big.Int -------------------------- *)

MaxSize == 65535

KeyShift == 65536

\* Go's % truncates toward zero: the remainder has the sign of the dividend.
GoRem(a, b) == IF a >= 0 THEN a % b ELSE 0 - ((0 - a) % b)

\* An addition in place of the exclusive or (q.Add for q.Xor).
XorAsAdd(a, b) == a + b

RECURSIVE Xor(_, _)
\* big.Int.Xor on non-negative values: bitwise exclusive or.
Xor(a, b) ==
    IF a = 0 THEN b
    ELSE IF b = 0 THEN a
    ELSE CHOOSE x \in {((a + b) % 2) + 2 * Xor(hi[1], hi[2]) :
                          hi \in {<<a \div 2, b \div 2>>}} : TRUE

\* big.Int.Mul: the integer product.
Mul(a, b) == a * b

\* check01: panics unless the polynomial is 0 or 1, else returns its bit.
check01(p) ==
    [panic |-> (p < 0 \/ p > 1), val |-> IF p = 1 THEN 1 ELSE 0]

\* to01: the shared constants oneP and zeroP, by value.
to01(b) == IF b THEN 1 ELSE 0

(* ------------------------------- heap ---------------------------------- *)

EmptyMap == [x \in {} |-> 0]

MapGet(f, k) == IF k \in DOMAIN f THEN f[k] ELSE 0

MapPut(f, k, x) == [y \in (DOMAIN f) \cup {k} |-> IF y = k THEN x ELSE f[y]]

MapDel(f, k) == [y \in (DOMAIN f) \ {k} |-> f[y]]

\* The address the j-th new(big.Int) from now returns: the j-th address, from
\* the lowest, that is not in use.
FreeAddr(h, j) ==
    CHOOSE a \in 1..(Cardinality(DOMAIN h) + j) :
        /\ a \notin DOMAIN h
        /\ Cardinality({b \in 1..a : b \notin DOMAIN h}) = j

NewAddr(h) == FreeAddr(h, 1)

\* B.v[k] = a new big.Int of value val[k], for every key k of val: the heap
\* and the map v after it.
AllocMap(h, v, val) ==
    LET addr == [k \in DOMAIN val |->
                    FreeAddr(h, Cardinality({x \in DOMAIN val : x <= k}))]
    IN [h |-> [a \in (DOMAIN h) \cup {addr[k] : k \in DOMAIN val} |->
                  IF a \in DOMAIN h THEN h[a]
                  ELSE val[CHOOSE k \in DOMAIN val : addr[k] = a]],
        v |-> [k \in (DOMAIN v) \cup (DOMAIN val) |->
                  IF k \in DOMAIN val THEN addr[k] ELSE v[k]]]

\* The addresses a matrix stores.
Refs(m) ==
    IF m.kind \in {"PSM", "PFM"} THEN {m.v[k] : k \in DOMAIN m.v}
    ELSE IF m.kind = "FM" THEN {m.v[1]}
    ELSE {}

\* Go's garbage collector: objects nothing refers to are gone.
Collect(h, live) == [a \in (DOMAIN h) \cap live |-> h[a]]

(* ----------------------------- matrices -------------------------------- *)

NoM == [kind |-> "none", r |-> 0, c |-> 0, n |-> 0, v |-> <<>>]

Mat(kind, rows, cols, n, v) ==
    [kind |-> kind, r |-> rows, c |-> cols, n |-> n, v |-> v]

SizeOK(rows, cols) ==
    ~(rows <= 0 \/ cols <= 0) /\ ~(rows > MaxSize \/ cols > MaxSize)

\* uint32(uint16(c))<<16 | uint32(uint16(r))
Key(r, c) == (c % KeyShift) * KeyShift + (r % KeyShift)

KeyRow(k) == k % KeyShift

KeyCol(k) == k \div KeyShift

NewSparse(rows, cols) == Mat("SM", rows, cols, 0, EmptyMap)

Pow2(k) == 2 ^ k

\* big.Int.Bit and big.Int.SetBit on a non-negative value.
Bit(x, k) == (x \div Pow2(k)) % 2

SetBit(x, k, b) == x - Bit(x, k) * Pow2(k) + b * Pow2(k)

\* The bit past the end of the matrix data is set.
NewFull(h, rows, cols) ==
    LET a == NewAddr(h)
    IN [m |-> Mat("FM", rows, cols, 0, <<a>>),
        h |-> MapPut(h, a, SetBit(0, rows * cols, 1))]

NewPSparse(rows, cols) == Mat("PSM", rows, cols, 0, EmptyMap)

\* v[i] = new(big.Int) for each i of the array.
NewPFull(h, rows, cols) ==
    LET z == AllocMap(h, EmptyMap, [i \in 0..(rows * cols - 1) |-> 0])
    IN [m |-> Mat("PFM", rows, cols, 0, z.v), h |-> z.h]

Eye(rows, cols) == Mat("I", rows, cols, 0, <<>>)

Zeros(rows, cols) == Mat("Z", rows, cols, 0, <<>>)

Rol(size, shift) == Mat("R", size, size, GoRem(shift, size), <<>>)

Shl(size, shift) == Mat("S", size, size, shift, <<>>)

Size(m) == [rows |-> m.r, cols |-> m.c]

\* The one-based indices of the elements of a rows x cols matrix.
CellsOf(rows, cols) == (1..rows) \X (1..cols)

(* ------------------------- element operations --------------------------- *)
(* Each returns [panic, m, h, ref, val]: whether the call panicked, the     *)
(* matrix and the heap after it, and the polynomial returned: its address   *)
(* (0 for a shared constant or nothing) and its value.                      *)

Ret(m, h, ref, val) ==
    [panic |-> FALSE, m |-> m, h |-> h, ref |-> ref, val |-> val]

Panic(m, h) == [panic |-> TRUE, m |-> m, h |-> h, ref |-> 0, val |-> 0]

\* SM.index, PSM.index: bounds check, then the sparse key.
SM_index(m, r, c) ==
    IF (r - 1 < 0 \/ r - 1 >= m.r) \/ (c - 1 < 0 \/ c - 1 >= m.c)
    THEN [panic |-> TRUE, k |-> 0]
    ELSE [panic |-> FALSE, k |-> Key(r - 1, c - 1)]

PSM_index(m, r, c) ==
    IF (r - 1 < 0 \/ r - 1 >= m.r) \/ (c - 1 < 0 \/ c - 1 >= m.c)
    THEN [panic |-> TRUE, k |-> 0]
    ELSE [panic |-> FALSE, k |-> Key(r - 1, c - 1)]

\* FM.index, PFM.index: bounds check, then the column-major position.
FM_index(m, r, c) ==
    IF (r - 1 < 0 \/ r - 1 >= m.r) \/ (c - 1 < 0 \/ c - 1 >= m.c)
    THEN [panic |-> TRUE, k |-> 0]
    ELSE [panic |-> FALSE, k |-> (c - 1) * m.r + (r - 1)]

PFM_index(m, r, c) ==
    IF (r - 1 < 0 \/ r - 1 >= m.r) \/ (c - 1 < 0 \/ c - 1 >= m.c)
    THEN [panic |-> TRUE, k |-> 0]
    ELSE [panic |-> FALSE, k |-> (c - 1) * m.r + (r - 1)]

SM_At(m, h, r, c) ==
    LET i == SM_index(m, r, c)
    IN IF i.panic THEN Panic(m, h)
       ELSE Ret(m, h, 0, to01(MapGet(m.v, i.k) # 0))

\* SetAt storing a bit before check01 has looked at the polynomial.
SM_SetAt_StoreFirst(m, h, r, c, p) ==
    LET i == SM_index(m, r, c)
        b == check01(h[p])
    IN IF i.panic THEN Panic(m, h)
       ELSE IF b.panic THEN Panic([m EXCEPT !.v = MapPut(m.v, i.k, 1)], h)
       ELSE Ret([m EXCEPT !.v = MapPut(m.v, i.k, b.val)], h, 0, 0)

SM_SetAt(m, h, r, c, p) ==
    LET i == SM_index(m, r, c)
        b == check01(h[p])
    IN IF i.panic \/ b.panic THEN Panic(m, h)
       ELSE Ret([m EXCEPT !.v = MapPut(m.v, i.k, b.val)], h, 0, 0)

SM_AddAt(m, h, r, c, p) ==
    LET i == SM_index(m, r, c)
        b == check01(h[p])
        x == (MapGet(m.v, i.k) + b.val) % 2
    IN IF i.panic \/ b.panic THEN Panic(m, h)
       ELSE Ret([m EXCEPT !.v = MapPut(m.v, i.k, x)], h, 0, to01(x # 0))

SM_MulAt(m, h, r, c, p) ==
    LET i == SM_index(m, r, c)
        b == check01(h[p])
        x == MapGet(m.v, i.k) * b.val
    IN IF i.panic \/ b.panic THEN Panic(m, h)
       ELSE Ret([m EXCEPT !.v = MapPut(m.v, i.k, x)], h, 0, to01(x # 0))

FM_At(m, h, r, c) ==
    LET i == FM_index(m, r, c)
    IN IF i.panic THEN Panic(m, h)
       ELSE Ret(m, h, 0, to01(Bit(h[m.v[1]], i.k) # 0))

FM_SetAt(m, h, r, c, p) ==
    LET i == FM_index(m, r, c)
        b == check01(h[p])
    IN IF i.panic \/ b.panic THEN Panic(m, h)
       ELSE Ret(m, MapPut(h, m.v[1], SetBit(h[m.v[1]], i.k, b.val)), 0, 0)

FM_AddAt(m, h, r, c, p) ==
    LET i == FM_index(m, r, c)
        b == check01(h[p])
        x == (Bit(h[m.v[1]], i.k) + b.val) % 2
    IN IF i.panic \/ b.panic THEN Panic(m, h)
       ELSE Ret(m, MapPut(h, m.v[1], SetBit(h[m.v[1]], i.k, x)), 0, to01(x # 0))

FM_MulAt(m, h, r, c, p) ==
    LET i == FM_index(m, r, c)
        b == check01(h[p])
        x == Bit(h[m.v[1]], i.k) * b.val
    IN IF i.panic \/ b.panic THEN Panic(m, h)
       ELSE Ret(m, MapPut(h, m.v[1], SetBit(h[m.v[1]], i.k, x)), 0, to01(x # 0))

\* PSM.At.  p is the entry, nil when the key is absent.  The branch for a nil
\* or zero p calls p.Sign() again, which dereferences nil when p is nil; a
\* zero entry is deleted and returned; for a non-zero entry the branch is not
\* taken and a new zero polynomial is returned.
PSM_At(m, h, r, c) ==
    LET i == PSM_index(m, r, c)
    IN IF i.panic THEN Panic(m, h)
       ELSE IF i.k \notin DOMAIN m.v THEN Panic(m, h)
       ELSE IF h[m.v[i.k]] = 0
            THEN Ret([m EXCEPT !.v = MapDel(m.v, i.k)], h, m.v[i.k], 0)
       ELSE LET a == NewAddr(h) IN Ret(m, MapPut(h, a, 0), a, 0)

\* PSM.SetAt: a zero polynomial deletes the entry; any other is stored as
\* the reference it is.
PSM_SetAt(m, h, r, c, p) ==
    LET i == PSM_index(m, r, c)
    IN IF i.panic THEN Panic(m, h)
       ELSE IF h[p] = 0 THEN Ret([m EXCEPT !.v = MapDel(m.v, i.k)], h, 0, 0)
       ELSE Ret([m EXCEPT !.v = MapPut(m.v, i.k, p)], h, 0, 0)

\* PSM.AddAt: q.Xor(q, p) on the entry q, a new zero when absent.
PSM_AddAt(m, h, r, c, p) ==
    LET i == PSM_index(m, r, c)
        ok == i.k \in DOMAIN m.v
        q == IF ok THEN m.v[i.k] ELSE NewAddr(h)
        h1 == IF ok THEN h ELSE MapPut(h, q, 0)
        x == Xor(h1[q], h1[p])
    IN IF i.panic THEN Panic(m, h)
       ELSE Ret([m EXCEPT !.v = MapPut(m.v, i.k, q)], MapPut(h1, q, x), q, x)

\* PSM.MulAt: q.Mul(q, p) on the entry q; a new zero is stored and returned
\* when absent.
PSM_MulAt(m, h, r, c, p) ==
    LET i == PSM_index(m, r, c)
        ok == i.k \in DOMAIN m.v
        q == IF ok THEN m.v[i.k] ELSE NewAddr(h)
        x == Mul(h[q], h[p])
    IN IF i.panic THEN Panic(m, h)
       ELSE IF ~ok THEN Ret([m EXCEPT !.v = MapPut(m.v, i.k, q)],
                            MapPut(h, q, 0), q, 0)
       ELSE Ret(m, MapPut(h, q, x), q, x)

\* PFM.At returns the stored reference.
PFM_At(m, h, r, c) ==
    LET i == PFM_index(m, r, c)
    IN IF i.panic THEN Panic(m, h)
       ELSE Ret(m, h, m.v[i.k], h[m.v[i.k]])

PFM_SetAt(m, h, r, c, p) ==
    LET i == PFM_index(m, r, c)
    IN IF i.panic THEN Panic(m, h)
       ELSE Ret([m EXCEPT !.v = MapPut(m.v, i.k, p)], h, 0, 0)

PFM_AddAt(m, h, r, c, p) ==
    LET i == PFM_index(m, r, c)
        q == m.v[i.k]
        x == Xor(h[q], h[p])
    IN IF i.panic THEN Panic(m, h)
       ELSE Ret(m, MapPut(h, q, x), q, x)

PFM_MulAt(m, h, r, c, p) ==
    LET i == PFM_index(m, r, c)
        q == m.v[i.k]
        x == Mul(h[q], h[p])
    IN IF i.panic THEN Panic(m, h)
       ELSE Ret(m, MapPut(h, q, x), q, x)

\* The structural kinds.
I_At(m, h, r, c) ==
    IF r <= 0 \/ r > m.r \/ c <= 0 \/ c > m.c THEN Panic(m, h)
    ELSE Ret(m, h, 0, to01(r = c))

Z_At(m, h, r, c) ==
    IF r <= 0 \/ r > m.r \/ c <= 0 \/ c > m.c THEN Panic(m, h)
    ELSE Ret(m, h, 0, 0)

R_At(m, h, r, c) ==
    LET r1 == GoRem(r - 1 + m.n, m.r) + 1
        r2 == IF r1 < 0 THEN r1 + m.r ELSE r1
    IN IF r <= 0 \/ r > m.r \/ c <= 0 \/ c > m.r THEN Panic(m, h)
       ELSE Ret(m, h, 0, to01(r2 = c))

S_At(m, h, r, c) ==
    IF r <= 0 \/ r > m.r \/ c <= 0 \/ c > m.r THEN Panic(m, h)
    ELSE Ret(m, h, 0, to01(r + m.n = c))

\* immutableM: SetAt, AddAt and MulAt panic.
immutableM(m, h) == Panic(m, h)

\* The interface M: a call goes to the method of the dynamic type.
At(m, h, r, c) ==
    CASE m.kind = "SM" -> SM_At(m, h, r, c)
      [] m.kind = "FM" -> FM_At(m, h, r, c)
      [] m.kind = "PSM" -> PSM_At(m, h, r, c)
      [] m.kind = "PFM" -> PFM_At(m, h, r, c)
      [] m.kind = "I" -> I_At(m, h, r, c)
      [] m.kind = "Z" -> Z_At(m, h, r, c)
      [] m.kind = "R" -> R_At(m, h, r, c)
      [] m.kind = "S" -> S_At(m, h, r, c)

SetAt(m, h, r, c, p) ==
    CASE m.kind = "SM" -> SM_SetAt(m, h, r, c, p)
      [] m.kind = "FM" -> FM_SetAt(m, h, r, c, p)
      [] m.kind = "PSM" -> PSM_SetAt(m, h, r, c, p)
      [] m.kind = "PFM" -> PFM_SetAt(m, h, r, c, p)
      [] OTHER -> immutableM(m, h)

AddAt(m, h, r, c, p) ==
    CASE m.kind = "SM" -> SM_AddAt(m, h, r, c, p)
      [] m.kind = "FM" -> FM_AddAt(m, h, r, c, p)
      [] m.kind = "PSM" -> PSM_AddAt(m, h, r, c, p)
      [] m.kind = "PFM" -> PFM_AddAt(m, h, r, c, p)
      [] OTHER -> immutableM(m, h)

MulAt(m, h, r, c, p) ==
    CASE m.kind = "SM" -> SM_MulAt(m, h, r, c, p)
      [] m.kind = "FM" -> FM_MulAt(m, h, r, c, p)
      [] m.kind = "PSM" -> PSM_MulAt(m, h, r, c, p)
      [] m.kind = "PFM" -> PFM_MulAt(m, h, r, c, p)
      [] OTHER -> immutableM(m, h)

(* ----------------------------- converters ------------------------------- *)
(* Each returns [panic, m, h, src]: whether the call panicked, the new      *)
(* matrix, the heap after it, and the source after it (PSM.At, which the    *)
(* generic path calls, deletes zero entries).                               *)

Conv(m, h, src) == [panic |-> FALSE, m |-> m, h |-> h, src |-> src]

ConvPanic(h, src) == [panic |-> TRUE, m |-> NoM, h |-> h, src |-> src]

\* uint32(k) * 0x00010001: row k, column k.
Diag == 65537

\* big.Int.BitLen of a non-negative value.
BitLen(x) == CHOOSE n \in 0..30 : x < 2 ^ n /\ (n = 0 \/ 2 ^ (n - 1) <= x)

\* The bits the word scan of A.v.Bits() visits: every bit set in the vector.
SetBits(x) == {b \in 0..(BitLen(x) - 1) : Bit(x, b) = 1}

RECURSIVE FromBits(_)
\* The big.Int after SetBit(b, 1) for every b of a set.
FromBits(bs) ==
    IF bs = {} THEN 0
    ELSE CHOOSE x \in {Pow2(b) + FromBits(rest) :
                          b \in {y \in bs : \A z \in bs : z <= y},
                          rest \in {{y \in bs : \E z \in bs : y < z}}} : TRUE

\* The cells in the order of a loop over rows with an inner loop over columns
\* and of a loop over columns with an inner loop over rows, zero-based.
RowMajor(rows, cols) ==
    [i \in 1..(rows * cols) |-> <<(i - 1) \div cols, (i - 1) % cols>>]

ColMajor(rows, cols) ==
    [i \in 1..(rows * cols) |-> <<(i - 1) % rows, (i - 1) \div rows>>]

RECURSIVE Scan(_, _, _, _, _, _)
\* m.At(cell + off) for the cells from the i-th on, in order, with check01 of
\* each value when bin; vals[i] is the value read for cell i.
Scan(m, h, cells, off, bin, i) ==
    IF i > Len(cells) THEN [panic |-> FALSE, m |-> m, h |-> h, vals |-> EmptyMap]
    ELSE CHOOSE x \in
           {IF a.panic \/ (bin /\ check01(a.val).panic)
            THEN [panic |-> TRUE, m |-> a.m, h |-> a.h, vals |-> EmptyMap]
            ELSE CHOOSE y \in
                   {IF rest.panic THEN rest
                    ELSE [rest EXCEPT !.vals = MapPut(@, i, a.val)] :
                       rest \in {Scan(a.m, a.h, cells, off, bin, i + 1)}} : TRUE :
               a \in {At(m, h, cells[i][1] + off, cells[i][2] + off)}} : TRUE

\* case *FM of Sparse and PSparse without the test c < int(B.c).
KeysFM_NoGuardTest(m, h) ==
    {Key(b % m.r, b \div m.r) : b \in SetBits(h[m.v[1]])}

\* The keys the closed-form cases of Sparse and PSparse store.
KeysFM(m, h) ==
    {Key(b % m.r, b \div m.r) : b \in {x \in SetBits(h[m.v[1]]) : x \div m.r < m.c}}

KeysI(m) == {k * Diag : k \in 0..(m.r - 1)}

KeysR(m) ==
    {Key(i, LET r == i + GoRem(m.n, m.r) IN IF r < 0 THEN r + m.r ELSE r) :
        i \in 0..(m.r - 1)}

KeysS(m) ==
    IF m.n >= 0 THEN {Key(i, i + m.n) : i \in 0..(m.r - m.n - 1)}
    ELSE {Key(i - m.n, i) : i \in 0..(m.r + m.n - 1)}

\* The keys of the generic path of Sparse: the cells that read as 1.
KeysScan(sc, cells) ==
    {Key(cells[i][1], cells[i][2]) : i \in {j \in DOMAIN sc.vals : sc.vals[j] # 0}}

Ones(keys) == [k \in keys |-> 1]

Sparse(m, h) ==
    LET rows == Size(m).rows
        cols == Size(m).cols
        cells == RowMajor(rows, cols)
        sc == Scan(m, h, cells, 1, TRUE, 1)
        B0(v) == Mat("SM", rows, cols, 0, v)
    IN IF rows > MaxSize \/ cols > MaxSize THEN ConvPanic(h, m)
       ELSE CASE m.kind = "SM" ->
                   Conv(B0([k \in {x \in DOMAIN m.v : m.v[x] # 0} |-> m.v[k]]), h, m)
              [] m.kind = "FM" -> Conv(B0(Ones(KeysFM(m, h))), h, m)
              [] m.kind = "I" -> Conv(B0(Ones(KeysI(m))), h, m)
              [] m.kind = "Z" -> Conv(B0(EmptyMap), h, m)
              [] m.kind = "R" -> Conv(B0(Ones(KeysR(m))), h, m)
              [] m.kind = "S" -> Conv(B0(Ones(KeysS(m))), h, m)
              [] OTHER -> IF sc.panic THEN ConvPanic(sc.h, sc.m)
                          ELSE Conv(B0(Ones(KeysScan(sc, cells))), sc.h, sc.m)

\* case *FM of Full: B.v.Set(A.v), a copy of the bit vector.
Full_FM(m, h, b) == MapPut(h, b, h[m.v[1]])

Full(m, h) ==
    LET rows == Size(m).rows
        cols == Size(m).cols
        b == NewAddr(h)
        cells == RowMajor(rows, cols)
        sc == Scan(m, MapPut(h, b, 0), cells, 1, TRUE, 1)
        B0 == Mat("FM", rows, cols, 0, <<b>>)
        guard == {rows * cols}
    IN IF rows > MaxSize \/ cols > MaxSize THEN ConvPanic(h, m)
       ELSE CASE m.kind = "SM" ->
                   Conv(B0, MapPut(h, b, FromBits(guard \cup
                        {KeyCol(k) * rows + KeyRow(k) :
                            k \in {x \in DOMAIN m.v : m.v[x] # 0}})), m)
              [] m.kind = "FM" -> Conv(B0, Full_FM(m, h, b), m)
              [] m.kind = "I" ->
                   Conv(B0, MapPut(h, b, FromBits(guard \cup
                        {k * rows + k : k \in 0..(rows - 1)})), m)
              [] OTHER ->
                   IF sc.panic THEN ConvPanic(sc.h, sc.m)
                   ELSE Conv(B0, MapPut(sc.h, b, FromBits(guard \cup
                        {cells[i][2] * rows + cells[i][1] :
                            i \in {j \in DOMAIN sc.vals : sc.vals[j] # 0}})), sc.m)

\* B.v[k] = v for every non-zero entry: the source's polynomials, not copies.
PSparse_PSM_NoCopy(m, h) ==
    [h |-> h, v |-> [k \in {x \in DOMAIN m.v : h[m.v[x]] # 0} |-> m.v[k]]]

\* case *PSM of PSparse: new(big.Int).Set(v) for every non-zero entry.
PSparse_PSM(m, h) ==
    AllocMap(h, EmptyMap,
             [k \in {x \in DOMAIN m.v : h[m.v[x]] # 0} |-> h[m.v[k]]])

\* PSparse has no generic path: a source of another type gives no entries.
PSparse(m, h) ==
    LET rows == Size(m).rows
        cols == Size(m).cols
        B0(z) == Conv(Mat("PSM", rows, cols, 0, z.v), z.h, m)
        New1(keys) == AllocMap(h, EmptyMap, Ones(keys))
    IN IF rows > MaxSize \/ cols > MaxSize THEN ConvPanic(h, m)
       ELSE CASE m.kind = "SM" -> B0(New1({x \in DOMAIN m.v : m.v[x] # 0}))
              [] m.kind = "FM" -> B0(New1(KeysFM(m, h)))
              [] m.kind = "PSM" -> B0(PSparse_PSM(m, h))
              [] m.kind = "I" -> B0(New1(KeysI(m)))
              [] m.kind = "Z" -> B0(New1({}))
              [] m.kind = "R" -> B0(New1(KeysR(m)))
              [] m.kind = "S" -> B0(New1(KeysS(m)))
              [] OTHER -> B0(New1({}))

\* PFull calls m.At(r, c) with the zero-based loop variables.
PFull(m, h) ==
    LET rows == Size(m).rows
        cols == Size(m).cols
        sc == Scan(m, h, ColMajor(rows, cols), 0, FALSE, 1)
        z == AllocMap(sc.h, EmptyMap, [i \in DOMAIN sc.vals |-> sc.vals[i]])
    IN IF rows > MaxSize \/ cols > MaxSize THEN ConvPanic(h, m)
       ELSE IF sc.panic THEN ConvPanic(sc.h, sc.m)
       ELSE Conv(Mat("PFM", rows, cols, 0, [i \in 0..(rows * cols - 1) |-> z.v[i + 1]]),
                 z.h, sc.m)

Convert(to, m, h) ==
    CASE to = "SM" -> Sparse(m, h)
      [] to = "FM" -> Full(m, h)
      [] to = "PSM" -> PSparse(m, h)
      [] to = "PFM" -> PFull(m, h)

(* ----------------------------- products --------------------------------- *)
(* FMul and its helpers return [panic, m, h]: whether the call panicked,    *)
(* the product and the heap after it.  No helper calls PSM.At, so that the  *)
(* operands are only read.                                                  *)

Prod(m, h) == [panic |-> FALSE, m |-> m, h |-> h]

ProdPanic(h) == [panic |-> TRUE, m |-> NoM, h |-> h]

\* j&0xfff in the n < 0 branch of case S of fMulXS and fMulXPS.
RowMask == 4096

\* check01(X.At(r, c)), for X of a kind whose At only reads.
At01(m, h, r, c) ==
    LET a == At(m, h, r, c)
    IN IF a.panic THEN [panic |-> TRUE, val |-> 0] ELSE check01(a.val)

\* The map a loop "for j, a := range A.v" visits, values for references.
Entries(m, h) ==
    IF m.kind = "PSM" THEN [k \in DOMAIN m.v |-> h[m.v[k]]] ELSE m.v

NonZero(ea) == {j \in DOMAIN ea : ea[j] # 0}

\* d ^= x for every x of a family indexed by a set: the parity of the ones.
Parity(ones) == Cardinality(ones) % 2

fMulFull(X, Y, h) ==
    LET ar == Size(X).rows
        ac == Size(X).cols
        bc == Size(Y).cols
        C0 == NewFull(h, ar, bc)
        a(r, i) == At01(X, h, r, i)
        b(i, c) == At01(Y, h, i, c)
        d(r, c) == Parity({i \in 1..ac : a(r, i).val = 1 /\ b(i, c).val = 1})
    IN IF \E r \in 1..ar, c \in 1..bc, i \in 1..ac :
             a(r, i).panic \/ b(i, c).panic
       THEN ProdPanic(C0.h)
       ELSE Prod(C0.m, MapPut(C0.h, C0.m.v[1], FromBits({ar * bc} \cup
                {(e[2] - 1) * ar + (e[1] - 1) :
                    e \in {x \in CellsOf(ar, bc) : d(x[1], x[2]) = 1}})))

\* case *SM and case *PSM of fMulSX and fMulPSX: C.v[col of k | row of j] ^=
\* a & b for every non-zero a at j and every b at k with col of j = row of k.
MulEntries(ea, eb) ==
    LET pairs == {p \in NonZero(ea) \X DOMAIN eb : KeyCol(p[1]) = KeyRow(p[2])}
        at(p) == Key(KeyRow(p[1]), KeyCol(p[2]))
    IN [panic |-> \E p \in pairs :
                     check01(ea[p[1]]).panic \/ check01(eb[p[2]]).panic,
        v |-> [x \in {at(p) : p \in pairs} |->
                  Parity({p \in pairs : at(p) = x /\ eb[p[2]] # 0})]]

\* cc of case R of fMulSX, rr of case R of fMulXS: (int(c) - X.n) % size.
RotateBack(c, n, size) ==
    LET cc == GoRem(c - n, size) IN IF cc < 0 THEN cc + size ELSE cc

\* fMulSX (A.v of bits) and fMulPSX (A.v of polynomials), on the entries ea of
\* A: the product of A and B as a new SM.
SparseTimes(ea, X, Y, h) ==
    LET ar == Size(X).rows
        ac == Size(X).cols
        bc == Size(Y).cols
        C0 == NewSparse(ar, bc)
        bad == \E j \in DOMAIN ea : check01(ea[j]).panic
        nz == NonZero(ea)
        me == MulEntries(ea, Entries(Y, h))
        b(j, i) == At01(Y, h, KeyCol(j) + 1, i + 1)
        hits == {q \in nz \X (0..(ac - 1)) : b(q[1], q[2]).val # 0}
        Set1(keys) == IF bad THEN ProdPanic(h)
                      ELSE Prod([C0 EXCEPT !.v = Ones(keys)], h)
    IN CASE Y.kind \in {"SM", "PSM"} ->
              IF me.panic THEN ProdPanic(h)
              ELSE Prod([C0 EXCEPT !.v = me.v], h)
         [] Y.kind = "I" ->
              Set1({j \in nz : KeyCol(j) < bc /\ KeyRow(j) < ar})
         [] Y.kind = "Z" -> Prod(C0, h)
         [] Y.kind = "R" ->
              Set1({Key(KeyRow(j), RotateBack(KeyCol(j), Y.n, bc)) : j \in nz})
         [] Y.kind = "S" ->
              IF Y.n >= 0
              THEN Set1({Key(KeyRow(j), KeyCol(j) - Y.n) :
                            j \in {x \in nz : KeyCol(x) - Y.n >= 0}})
              ELSE Set1({Key(KeyRow(j), KeyCol(j) - Y.n) :
                            j \in {x \in nz : KeyCol(x) - Y.n < bc}})
         [] OTHER ->
              IF bad \/ \E j \in nz, i \in 0..(ac - 1) : b(j, i).panic
              THEN ProdPanic(h)
              ELSE Prod([C0 EXCEPT !.v =
                          [x \in {Key(KeyRow(q[1]), q[2]) : q \in hits} |->
                              Parity({q \in hits : Key(KeyRow(q[1]), q[2]) = x})]],
                        h)

fMulSX(X, Y, h) == SparseTimes(Entries(X, h), X, Y, h)

fMulPSX(X, Y, h) == SparseTimes(Entries(X, h), X, Y, h)

\* fMulXS (B.v of bits) and fMulXPS (B.v of polynomials), on the entries eb of
\* B: the product of A and B as a new SM.
TimesSparse(eb, X, Y, h) ==
    LET ar == Size(X).rows
        ac == Size(X).cols
        bc == Size(Y).cols
        C0 == NewSparse(ar, bc)
        bad == \E j \in DOMAIN eb : check01(eb[j]).panic
        nz == NonZero(eb)
        a(i, j) == At01(X, h, i + 1, KeyRow(j) + 1)
        hits == {q \in (0..(ac - 1)) \X nz : a(q[1], q[2]).val # 0}
        Set1(keys) == IF bad THEN ProdPanic(h)
                      ELSE Prod([C0 EXCEPT !.v = Ones(keys)], h)
    IN CASE X.kind = "R" ->
              Set1({Key(RotateBack(KeyRow(j), X.n, ar), KeyCol(j)) : j \in nz})
         [] X.kind = "S" ->
              IF X.n >= 0
              THEN Set1({Key(KeyRow(j) + X.n, KeyCol(j)) :
                            j \in {x \in nz : KeyRow(x) + X.n < ar}})
              ELSE Set1({Key((KeyRow(j) % RowMask) + X.n, KeyCol(j)) :
                            j \in {x \in nz : (KeyRow(x) % RowMask) + X.n >= 0}})
         [] OTHER ->
              IF bad \/ \E i \in 0..(ac - 1), j \in nz : a(i, j).panic
              THEN ProdPanic(h)
              ELSE Prod([C0 EXCEPT !.v =
                          [x \in {Key(q[1], KeyCol(q[2])) : q \in hits} |->
                              Parity({q \in hits : Key(q[1], KeyCol(q[2])) = x})]],
                        h)

fMulXS(X, Y, h) == TimesSparse(Entries(Y, h), X, Y, h)

fMulXPS(X, Y, h) == TimesSparse(Entries(Y, h), X, Y, h)

\* A converter's result as a product.
OfConv(res) == IF res.panic THEN ProdPanic(res.h) ELSE Prod(res.m, res.h)

FMul(X, Y, h) ==
    LET ar == Size(X).rows
        ac == Size(X).cols
        br == Size(Y).rows
        bc == Size(Y).cols
    IN IF ac # br THEN ProdPanic(h)
       ELSE CASE X.kind = "Z" -> Prod(Zeros(ar, bc), h)
              [] X.kind = "SM" -> fMulSX(X, Y, h)
              [] X.kind = "PSM" -> fMulPSX(X, Y, h)
              [] X.kind = "I" /\ Y.kind = "SM" -> OfConv(Sparse(Y, h))
              [] X.kind = "I" /\ Y.kind = "FM" -> OfConv(Full(Y, h))
              [] X.kind = "I" /\ Y.kind = "I" -> Prod(Eye(ar, bc), h)
              [] OTHER ->
                   CASE Y.kind = "Z" -> Prod(Zeros(ar, bc), h)
                     [] Y.kind = "SM" -> fMulXS(X, Y, h)
                     [] Y.kind = "PSM" -> fMulXPS(X, Y, h)
                     [] Y.kind = "I" /\ X.kind = "FM" -> OfConv(Full(X, h))
                     [] OTHER -> fMulFull(X, Y, h)

(* --------------------- runs of element operations ----------------------- *)
(* One matrix A, made by a size constructor, and a caller that calls At,    *)
(* SetAt, AddAt and MulAt on it.  A polynomial argument is a new big.Int    *)
(* or a reference the caller already holds: the one stored at the element,  *)
(* the argument of the last call or the reference the last call returned.   *)
(* Indices are in bounds and arguments to a binary matrix are 0 or 1.       *)
(* last records the last call: the element's value before it (before),     *)
(* whether the argument was the reference stored at the element (alias),   *)
(* its outcome, and, when the call before it was on the same element and   *)
(* did not panic, that call's operation, argument value, before and alias, *)
(* and whether both calls had the same argument (samearg): the same        *)
(* reference, or for a binary matrix, which only reads it, the same value. *)

\* Values of the polynomials a caller makes for a binary matrix and for a
\* polynomial matrix (x + 1 and x^2 + 1).
BinArgs == {0, 1}

PolyArgs == {0, 3, 5}

Concrete == {"SM", "FM", "PSM", "PFM"}

Binary == {"SM", "FM"}

NoCall ==
    [op |-> "none", r |-> 0, c |-> 0, arg |-> 0, argval |-> 0, alias |-> FALSE,
     before |-> 0, panic |-> FALSE, ref |-> 0, val |-> 0,
     prevop |-> "none", samearg |-> FALSE, prevbefore |-> 0,
     prevargval |-> 0, prevalias |-> FALSE]

InBounds(m, r, c) == r >= 1 /\ r <= m.r /\ c >= 1 /\ c <= m.c

\* The reference stored for element (r, c), 0 when there is none.
StoredRef(m, r, c) ==
    IF ~InBounds(m, r, c) THEN 0
    ELSE IF m.kind = "PSM" THEN MapGet(m.v, Key(r - 1, c - 1))
    ELSE IF m.kind = "PFM" THEN m.v[(c - 1) * m.r + (r - 1)]
    ELSE 0

\* The value of element (r, c) that the storage of m holds: a key that is
\* absent from a sparse map is a zero element.
ElemVal(m, h, r, c) ==
    IF ~InBounds(m, r, c) THEN 0
    ELSE IF m.kind = "SM" THEN to01(MapGet(m.v, Key(r - 1, c - 1)) # 0)
    ELSE IF m.kind = "FM" THEN Bit(h[m.v[1]], (c - 1) * m.r + (r - 1))
    ELSE IF StoredRef(m, r, c) = 0 THEN 0
    ELSE h[StoredRef(m, r, c)]

\* The polynomials a caller can pass to a call on element (r, c): [h, p], the
\* heap with the argument in it and the argument's address.  Making a new
\* polynomial drops the caller's reference to its last argument.
CallerArgs(m, h, r, c) ==
    LET h0 == Collect(h, Refs(m) \cup {last.ref})
        held == {StoredRef(m, r, c), last.arg, last.ref} \ {0}
    IN {[h |-> MapPut(h0, NewAddr(h0), x), p |-> NewAddr(h0), held |-> FALSE] :
            x \in IF m.kind \in Binary THEN BinArgs ELSE PolyArgs}
       \cup IF m.kind \in Binary THEN {}
            ELSE {[h |-> h, p |-> a, held |-> TRUE] : a \in held \cap DOMAIN h}

NoArg(h) == [h |-> h, p |-> 0, held |-> FALSE]

Record(op, m, r, c, a, res) ==
    LET same == last.r = r /\ last.c = c /\ ~last.panic /\ last.op # "none"
        argval == IF a.p = 0 THEN 0 ELSE a.h[a.p]
    IN [op |-> op, r |-> r, c |-> c, arg |-> a.p, argval |-> argval,
        alias |-> (a.p # 0 /\ a.p = StoredRef(m, r, c)),
        before |-> ElemVal(m, a.h, r, c),
        panic |-> res.panic, ref |-> res.ref, val |-> res.val,
        prevop |-> IF same THEN last.op ELSE "none",
        samearg |-> /\ same
                    /\ a.p # 0
                    /\ IF m.kind \in Binary THEN argval = last.argval
                       ELSE a.held /\ a.p = last.arg,
        prevbefore |-> IF same THEN last.before ELSE 0,
        prevargval |-> IF same THEN last.argval ELSE 0,
        prevalias |-> IF same THEN last.alias ELSE FALSE]

Finish(op, r, c, a, res) ==
    /\ A' = res.m
    /\ heap' = Collect(res.h, Refs(res.m) \cup {a.p, res.ref})
    /\ last' = Record(op, A, r, c, a, res)
    /\ nops' = nops + 1
    /\ UNCHANGED <<B, C>>

CallAt ==
    /\ nops < MaxOps
    /\ \E r \in 1..A.r, c \in 1..A.c :
          Finish("At", r, c, NoArg(heap), At(A, heap, r, c))

CallSetAt ==
    /\ nops < MaxOps
    /\ \E r \in 1..A.r, c \in 1..A.c :
          \E a \in CallerArgs(A, heap, r, c) :
             Finish("SetAt", r, c, a, SetAt(A, a.h, r, c, a.p))

CallAddAt ==
    /\ nops < MaxOps
    /\ \E r \in 1..A.r, c \in 1..A.c :
          \E a \in CallerArgs(A, heap, r, c) :
             Finish("AddAt", r, c, a, AddAt(A, a.h, r, c, a.p))

CallMulAt ==
    /\ nops < MaxOps
    /\ \E r \in 1..A.r, c \in 1..A.c :
          \E a \in CallerArgs(A, heap, r, c) :
             Finish("MulAt", r, c, a, MulAt(A, a.h, r, c, a.p))

InitElem ==
    /\ \E k \in Concrete, rows \in 1..MaxCells, cols \in 1..MaxCells :
          /\ rows * cols <= MaxCells
          /\ SizeOK(rows, cols)
          /\ \/ k = "SM" /\ A = NewSparse(rows, cols) /\ heap = EmptyMap
             \/ k = "FM" /\ A = NewFull(EmptyMap, rows, cols).m
                         /\ heap = NewFull(EmptyMap, rows, cols).h
             \/ k = "PSM" /\ A = NewPSparse(rows, cols) /\ heap = EmptyMap
             \/ k = "PFM" /\ A = NewPFull(EmptyMap, rows, cols).m
                          /\ heap = NewPFull(EmptyMap, rows, cols).h
    /\ B = NoM
    /\ C = NoM
    /\ last = NoCall
    /\ nops = 0

NextElem == CallAt \/ CallSetAt \/ CallAddAt \/ CallMulAt

SpecElem == InitElem /\ [][NextElem]_vars

(* ------------------ claims about element operations -------------------- *)

\* C5: a matrix fresh from its size constructor returns the zero element,
\* without failing, from At at every valid index.
C5_FreshAtIsZero ==
    (nops = 1 /\ last.op = "At") => (~last.panic /\ last.val = 0)

\* C4: for every concrete kind, SetAt(r, c, v) immediately followed by
\* At(r, c) returns a value equal to v.
C4_SetAtThenAt ==
    (last.op = "At" /\ last.prevop = "SetAt")
        => (~last.panic /\ last.val = last.prevargval)

Patterns(rows, cols) ==
    {s \in SUBSET CellsOf(rows, cols) : Cardinality(s) <= MaxNnz}

AllKeys(rows, cols) == {Key(e[1] - 1, e[2] - 1) : e \in CellsOf(rows, cols)}

KeysOf(s) == {Key(e[1] - 1, e[2] - 1) : e \in s}

BuildSM(rows, cols, s, zeros) ==
    Mat("SM", rows, cols, 0,
        [k \in (IF zeros THEN AllKeys(rows, cols) ELSE KeysOf(s)) |->
            IF k \in KeysOf(s) THEN 1 ELSE 0])

BuildFM(h, rows, cols, s) ==
    [m |-> Mat("FM", rows, cols, 0, <<NewAddr(h)>>),
     h |-> MapPut(h, NewAddr(h), FromBits({rows * cols}
                 \cup {(e[2] - 1) * rows + (e[1] - 1) : e \in s}))]

BuildPSM(h, rows, cols, s, x, zeros) ==
    LET z == AllocMap(h, EmptyMap,
                 [k \in (IF zeros THEN AllKeys(rows, cols) ELSE KeysOf(s)) |->
                     IF k \in KeysOf(s) THEN x ELSE 0])
    IN [m |-> Mat("PSM", rows, cols, 0, z.v), h |-> z.h]

BuildPFM(h, rows, cols, s, x) ==
    LET z == AllocMap(h, EmptyMap,
                 [i \in 0..(rows * cols - 1) |->
                     IF <<(i % rows) + 1, (i \div rows) + 1>> \in s THEN x ELSE 0])
    IN [m |-> Mat("PFM", rows, cols, 0, z.v), h |-> z.h]

Structural == {"I", "Z", "R", "S"}

\* The concrete matrices with the given cells non-zero, made on a heap h, as
\* [m, h].
ConcreteSources(h, rows, cols, s) ==
    {[m |-> BuildSM(rows, cols, s, z), h |-> h] : z \in BOOLEAN}
    \cup {BuildFM(h, rows, cols, s)}
    \cup {BuildPSM(h, rows, cols, s, 1, z) : z \in BOOLEAN}
    \cup {BuildPFM(h, rows, cols, s, 1)}

StructuralSources(rows, cols) ==
    {Eye(rows, cols), Zeros(rows, cols)}
    \cup IF rows # cols THEN {}
         ELSE {Rol(rows, n) : n \in (0 - rows)..rows}
              \cup {Shl(rows, n) : n \in (0 - rows)..rows}

NoConv == [op |-> "none", to |-> "none", panic |-> FALSE]

InitConv ==
    /\ \E rows \in 1..MaxConvCells : \E cols \in 1..(MaxConvCells \div rows) :
          \/ \E s \in Patterns(rows, cols) :
                \E src \in ConcreteSources(EmptyMap, rows, cols, s) :
                   A = src.m /\ heap = src.h
          \/ \E m \in StructuralSources(rows, cols) : A = m /\ heap = EmptyMap
    /\ B = NoM
    /\ C = NoM
    /\ last = NoConv
    /\ nops = 0

DoConvert ==
    /\ last.op = "none"
    /\ \E to \in Concrete :
          LET res == Convert(to, A, heap)
          IN /\ A' = res.src
             /\ B' = res.m
             /\ heap' = Collect(res.h, Refs(res.src) \cup Refs(res.m))
             /\ last' = [op |-> "convert", to |-> to, panic |-> res.panic]
    /\ UNCHANGED <<C, nops>>

DoConvertBack ==
    /\ last.op = "convert" /\ ~last.panic
    /\ A.kind \in Concrete
    /\ LET res == Convert(A.kind, B, heap)
       IN /\ B' = res.src
          /\ C' = res.m
          /\ heap' = Collect(res.h, Refs(A) \cup Refs(res.src) \cup Refs(res.m))
          /\ last' = [op |-> "back", to |-> A.kind, panic |-> res.panic]
    /\ UNCHANGED <<A, nops>>

Call(op, m, h, r, c, p) ==
    CASE op = "SetAt" -> SetAt(m, h, r, c, p)
      [] op = "AddAt" -> AddAt(m, h, r, c, p)
      [] op = "MulAt" -> MulAt(m, h, r, c, p)

\* A caller's new polynomial of value x: [h, p].
NewInt(h, x) == [h |-> MapPut(h, NewAddr(h), x), p |-> NewAddr(h)]

WriteSource ==
    /\ last.op \in {"convert", "call"} /\ ~last.panic
    /\ nops < MaxCalls /\ A.r * A.c <= MaxWriteCells
    /\ A.kind \in Concrete
    /\ \E op \in {"SetAt", "AddAt", "MulAt"}, r \in 1..A.r, c \in 1..A.c :
          \E x \in IF A.kind \in Binary THEN BinArgs ELSE PolyArgs :
             LET a == NewInt(heap, x)
                 res == Call(op, A, a.h, r, c, a.p)
             IN /\ A' = res.m
                /\ heap' = Collect(res.h, Refs(res.m) \cup Refs(B))
                /\ last' = [op |-> "call", to |-> "A", panic |-> res.panic]
    /\ nops' = nops + 1
    /\ UNCHANGED <<B, C>>

WriteResult ==
    /\ last.op \in {"convert", "call"} /\ ~last.panic
    /\ nops < MaxCalls /\ B.r * B.c <= MaxWriteCells
    /\ \E op \in {"SetAt", "AddAt", "MulAt"}, r \in 1..B.r, c \in 1..B.c :
          \E x \in IF B.kind \in Binary THEN BinArgs ELSE PolyArgs :
             LET a == NewInt(heap, x)
                 res == Call(op, B, a.h, r, c, a.p)
             IN /\ B' = res.m
                /\ heap' = Collect(res.h, Refs(res.m) \cup Refs(A))
                /\ last' = [op |-> "call", to |-> "B", panic |-> res.panic]
    /\ nops' = nops + 1
    /\ UNCHANGED <<A, C>>

NextConv == DoConvert \/ DoConvertBack \/ WriteSource \/ WriteResult

SpecConv == InitConv /\ [][NextConv]_vars

\* The elements a matrix holds, and what At returns for each of them: whether
\* it panics and the value returned.
Elems(m, h) == [e \in CellsOf(m.r, m.c) |-> ElemVal(m, h, e[1], e[2])]

Reads(m, h) ==
    [e \in CellsOf(m.r, m.c) |->
        LET a == At(m, h, e[1], e[2]) IN <<a.panic, a.val>>]

ZeroOne(m, h) == \A e \in CellsOf(m.r, m.c) : ElemVal(m, h, e[1], e[2]) \in {0, 1}

\* C7: a concrete matrix A of kind K holding only 0/1 elements converts to
\* every other concrete kind without a panic, and the result converts back to
\* K without a panic, into a matrix of A's size holding A's elements.
C7_RoundTrip ==
    /\ (last.op = "convert" /\ A.kind \in Concrete /\ last.to # A.kind
            /\ ZeroOne(A, heap))
          => ~last.panic
    /\ (last.op = "back" /\ B.kind # A.kind /\ ZeroOne(A, heap))
          => (~last.panic /\ Size(C) = Size(A)
               /\ Elems(C, heap) = Elems(A, heap))

\* C8: Sparse, Full and PSparse of a structural matrix X (I, Z, R, S) do not
\* panic and give a matrix of X's size whose element (r, c) is X.At(r, c).
C8_StructuralConversion ==
    (last.op = "convert" /\ A.kind \in Structural
        /\ last.to \in {"SM", "FM", "PSM"})
      => (~last.panic /\ Size(B) = Size(A)
           /\ \A e \in CellsOf(A.r, A.c) :
                 ElemVal(B, heap, e[1], e[2]) = At(A, heap, e[1], e[2]).val)

\* C9: after a conversion of A to B, a SetAt, AddAt or MulAt on B changes no
\* element of A and nothing A.At returns, and one on A changes no element of
\* B and nothing B.At returns.
C9_NoSharedStorage ==
    [][/\ (last'.op = "call" /\ last'.to = "B")
             => (Elems(A, heap)' = Elems(A, heap)
                  /\ Reads(A, heap)' = Reads(A, heap))
       /\ (last'.op = "call" /\ last'.to = "A")
             => (Elems(B, heap)' = Elems(B, heap)
                  /\ Reads(B, heap)' = Reads(B, heap))]_vars

\* A sparse polynomial matrix holding 1 was converted by PSparse, and a write
\* on the result has changed that element of the result only.
C9_Witness ==
    /\ A.kind = "PSM" /\ B.kind = "PSM"
    /\ last.op = "call" /\ last.to = "B" /\ ~last.panic
    /\ \E e \in CellsOf(A.r, A.c) :
          /\ ElemVal(A, heap, e[1], e[2]) = 1
          /\ ElemVal(B, heap, e[1], e[2]) # 1

(* --------------------------- runs of products --------------------------- *)
(* Two operands A (ar x ac) and B (ac x bc) of any kinds, holding only 0   *)
(* and 1, and their product C = FMul(A, B).                                 *)

Operands(h, rows, cols) ==
    (IF rows * cols > MaxMulCells THEN {}
     ELSE UNION {ConcreteSources(h, rows, cols, s) : s \in Patterns(rows, cols)})
    \cup {[m |-> x, h |-> h] : x \in StructuralSources(rows, cols)}

InitMul ==
    /\ \E ar \in 1..MaxMulDim, ac \in 1..MaxMulDim, bc \in 1..MaxMulDim :
          \E x \in Operands(EmptyMap, ar, ac) :
             \E y \in Operands(x.h, ac, bc) :
                A = x.m /\ B = y.m /\ heap = y.h
    /\ C = NoM
    /\ last = NoConv
    /\ nops = 0

DoFMul ==
    /\ last.op = "none"
    /\ LET res == FMul(A, B, heap)
       IN /\ C' = res.m
          /\ heap' = res.h
          /\ last' = [op |-> "mul", to |-> "C", panic |-> res.panic]
    /\ UNCHANGED <<A, B, nops>>

NextMul == DoFMul

SpecMul == InitMul /\ [][NextMul]_vars

\* Element (r, c) of a matrix: what its storage holds, or for a structural
\* matrix what its At returns.
Value(m, h, r, c) ==
    IF m.kind \in Concrete THEN ElemVal(m, h, r, c)
    ELSE IF InBounds(m, r, c) THEN At(m, h, r, c).val
    ELSE 0

\* C1: FMul(A, B) does not panic and element (i, j) of the product is the
\* exclusive or over t of A(i, t) and B(t, j).
C1_Product ==
    (last.op = "mul")
      => (~last.panic
           /\ \A i \in 1..A.r, j \in 1..B.c :
                 Value(C, heap, i, j)
                   = Parity({t \in 1..A.c : Value(A, heap, i, t) = 1
                                              /\ Value(B, heap, t, j) = 1}))

\* C2: FMul(A, B) does not panic and the product of an m x k and a k x n
\* matrix has size m x n.
C2_ProductSize ==
    (last.op = "mul")
      => (~last.panic /\ Size(C) = [rows |-> A.r, cols |-> B.c])

\* C3: FMul(A, Eye(k, k)) has A's size and its element (r, c) is what
\* A.At(r, c) returns, for every element of A.
C3_TimesEye ==
    (last.op = "mul" /\ B.kind = "I" /\ B.r = B.c)
      => (~last.panic /\ Size(C) = Size(A)
           /\ \A e \in CellsOf(A.r, A.c) :
                 /\ ~At(A, heap, e[1], e[2]).panic
                 /\ Value(C, heap, e[1], e[2]) = At(A, heap, e[1], e[2]).val)

\* C10: for A an SM, a PSM or an FM, FMul(A, Rol(size, n)) has the element
\* of A at (i, t) at column ((t - 1 + n) mod size) + 1 of row i.
C10_TimesRol ==
    (last.op = "mul" /\ A.kind \in {"SM", "PSM", "FM"} /\ B.kind = "R")
      => (~last.panic /\ Size(C) = Size(A)
           /\ \A i \in 1..A.r, t \in 1..A.c :
                 Value(C, heap, i, ((t - 1 + B.n) % B.r) + 1)
                   = Value(A, heap, i, t))

\* C11: for A an SM, a PSM or an FM, FMul(A, Shl(size, n)) has the element
\* of A at (i, c) at column c + n of row i when 1 <= c + n <= size and has
\* zeros in the columns no element moves to.
C11_TimesShl ==
    (last.op = "mul" /\ A.kind \in {"SM", "PSM", "FM"} /\ B.kind = "S")
      => (~last.panic /\ Size(C) = Size(A)
           /\ \A i \in 1..A.r, j \in 1..A.c :
                 Value(C, heap, i, j)
                   = IF j - B.n >= 1 /\ j - B.n <= A.c
                     THEN Value(A, heap, i, j - B.n) ELSE 0)

\* C12: when A or B is a Z, FMul(A, B) does not panic and returns a Z of
\* size rows(A) x cols(B).
C12_TimesZeros ==
    (last.op = "mul" /\ (A.kind = "Z" \/ B.kind = "Z"))
      => (~last.panic /\ C.kind = "Z"
           /\ Size(C) = [rows |-> A.r, cols |-> B.c])

(* ------------------------- runs of failing calls ------------------------ *)
(* A matrix A of any kind and calls that the contract of M forbids: an      *)
(* index out of bounds, a polynomial that is not 0 or 1 given to a binary   *)
(* matrix, a write to an immutable matrix.  last.to names which.            *)

\* Values of polynomials that check01 rejects: -1, x and x + 1.
BadArgs == {0 - 1, 2, 3}

CallM(op, m, h, r, c, p) ==
    IF op = "At" THEN At(m, h, r, c) ELSE Call(op, m, h, r, c, p)

InitFail ==
    /\ \E rows \in 1..MaxFailCells : \E cols \in 1..(MaxFailCells \div rows) :
          \/ \E s \in Patterns(rows, cols) :
                \E src \in ConcreteSources(EmptyMap, rows, cols, s) :
                   A = src.m /\ heap = src.h
          \/ \E m \in StructuralSources(rows, cols) : A = m /\ heap = EmptyMap
    /\ B = NoM
    /\ C = NoM
    /\ last = NoConv
    /\ nops = 0

Failed(op, why, res) ==
    /\ A' = res.m
    /\ heap' = Collect(res.h, Refs(res.m))
    /\ last' = [op |-> op, to |-> why, panic |-> res.panic]
    /\ nops' = nops + 1
    /\ UNCHANGED <<B, C>>

FailIndex ==
    /\ nops < MaxFails
    /\ \E op \in {"At", "SetAt", "AddAt", "MulAt"},
          r \in 0..(A.r + 1), c \in 0..(A.c + 1), x \in BinArgs :
          /\ ~InBounds(A, r, c)
          /\ LET a == NewInt(heap, x)
             IN Failed(op, "index", CallM(op, A, a.h, r, c, a.p))

FailValue ==
    /\ nops < MaxFails
    /\ A.kind \in Binary
    /\ \E op \in {"SetAt", "AddAt", "MulAt"},
          r \in 1..A.r, c \in 1..A.c, x \in BadArgs :
          LET a == NewInt(heap, x)
          IN Failed(op, "value", CallM(op, A, a.h, r, c, a.p))

FailImmutable ==
    /\ nops < MaxFails
    /\ A.kind \in Structural
    /\ \E op \in {"SetAt", "AddAt", "MulAt"},
          r \in 1..A.r, c \in 1..A.c, x \in BinArgs :
          LET a == NewInt(heap, x)
          IN Failed(op, "immutable", CallM(op, A, a.h, r, c, a.p))

NextFail == FailIndex \/ FailValue \/ FailImmutable

SpecFail == InitFail /\ [][NextFail]_vars

\* C13: a call with an index out of bounds, a write of a polynomial that is
\* not 0 or 1 to a binary matrix and a write to an I, Z, R or S panic, and
\* leave every element of the matrix, and what At returns for it, as before.
C13_FailingCallKeepsMatrix ==
    [][(last'.to \in {"index", "value", "immutable"})
          => (last'.panic
               /\ Elems(A, heap)' = Elems(A, heap)
               /\ Reads(A, heap)' = Reads(A, heap))]_vars

\* A SetAt of a polynomial that is not 0 or 1 on a sparse binary matrix with
\* a zero element has panicked.
C13_Witness ==
    /\ A.kind = "SM"
    /\ last.op = "SetAt" /\ last.to = "value" /\ last.panic
    /\ \E e \in CellsOf(A.r, A.c) : ElemVal(A, heap, e[1], e[2]) = 0

\* The product of two polynomials over GF(2), as the comment of MulAt has
\* it (a convolution of coefficients): coefficient k is the exclusive or of
\* q_i and p_j over i + j = k.
ClMul(q, p) ==
    FromBits({k \in 0..(BitLen(q) + BitLen(p)) :
                 Parity({i \in 0..k : Bit(q, i) = 1 /\ Bit(p, k - i) = 1}) = 1})

\* C14: MulAt(r, c, p) on a PSM or a PFM does not panic and leaves at (r, c)
\* the carryless product of the element it held and p.
C14_MulAtCarryless ==
    (last.op = "MulAt" /\ A.kind \in {"PSM", "PFM"})
      => (~last.panic
           /\ ElemVal(A, heap, last.r, last.c)
                = ClMul(last.before, last.argval))

(* ------------------------- reads of a rotation -------------------------- *)
(* A = Rol(size, shift) and B = Rol(size, shift + size), and one At with    *)
(* the same valid index on both.  last keeps the shift given to Rol.        *)

InitRol ==
    /\ \E size \in 1..MaxRolSize, shift \in (0 - MaxShift)..MaxShift :
          /\ A = Rol(size, shift)
          /\ B = Rol(size, shift + size)
          /\ last = [op |-> "none", shift |-> shift, r |-> 0, c |-> 0,
                     panic |-> FALSE, val |-> 0, other |-> 0]
    /\ C = NoM
    /\ heap = EmptyMap
    /\ nops = 0

RolAt ==
    /\ last.op = "none"
    /\ \E r \in 1..A.r, c \in 1..A.c :
          last' = [op |-> "At", shift |-> last.shift, r |-> r, c |-> c,
                   panic |-> At(A, heap, r, c).panic \/ At(B, heap, r, c).panic,
                   val |-> At(A, heap, r, c).val,
                   other |-> At(B, heap, r, c).val]
    /\ UNCHANGED <<A, B, C, heap, nops>>

NextRol == RolAt

SpecRol == InitRol /\ [][NextRol]_vars

\* C15: Rol(size, shift).At(r, c) is 1 exactly when
\* ((r - 1 + shift) mod size) + 1 = c, with the non-negative remainder; it is
\* what Rol(size, shift + size).At(r, c) is, and every row and every column
\* of the matrix has exactly one 1.
C15_RolAt ==
    (last.op = "At")
      => (/\ ~last.panic
          /\ (last.val = 1) <=> (((last.r - 1 + last.shift) % A.r) + 1 = last.c)
          /\ last.val = last.other
          /\ \A i \in 1..A.r :
                /\ Cardinality({j \in 1..A.r : At(A, heap, i, j).val = 1}) = 1
                /\ Cardinality({j \in 1..A.r : At(A, heap, j, i).val = 1}) = 1)

\* Every key of a sparse map is a (row, col) inside the matrix.
KeysIn(m) ==
    m.kind \in {"SM", "PSM"}
      => \A k \in DOMAIN m.v : KeyRow(k) < m.r /\ KeyCol(k) < m.c

\* The guard bit of an FM is set, and the bit of every valid index is below
\* it.
GuardOK(m, h) ==
    m.kind = "FM"
      => (/\ Bit(h[m.v[1]], m.r * m.c) = 1
          /\ \A e \in CellsOf(m.r, m.c) :
                /\ ~FM_index(m, e[1], e[2]).panic
                /\ FM_index(m, e[1], e[2]).k \in 0..(m.r * m.c - 1))

\* C16: an FM made by NewFull or Full and written by SetAt, AddAt, MulAt has
\* its guard bit rows * cols set and every valid index below it, and Sparse
\* and PSparse of an FM give the FM's elements and no entry for the guard.
C16_GuardBit ==
    /\ GuardOK(A, heap) /\ GuardOK(B, heap) /\ GuardOK(C, heap)
    /\ (last.op = "convert" /\ A.kind = "FM" /\ last.to \in {"SM", "PSM"})
          => (~last.panic /\ KeysIn(B) /\ Elems(B, heap) = Elems(A, heap))
    /\ (last.op = "back" /\ B.kind = "FM" /\ last.to \in {"SM", "PSM"})
          => (~last.panic /\ KeysIn(C) /\ Elems(C, heap) = Elems(B, heap))

\* Sparse has scanned the bit vector of an FM that Full made and that holds
\* a 1.
C16_Witness ==
    /\ last.op = "back" /\ ~last.panic
    /\ B.kind = "FM" /\ C.kind = "SM"
    /\ \E e \in CellsOf(B.r, B.c) : ElemVal(B, heap, e[1], e[2]) = 1

(* --------------------------------- views --------------------------------- *)
(* A V is held in B as [kind, r, c, rr, cc]; its field m is the matrix A.    *)

MaxViewCells == 4

MaxViewOps == 1

View(r, c, rows, cols) ==
    [kind |-> "V", r |-> r, c |-> c, rr |-> rows, cc |-> cols]

V_Size(v) == [rows |-> v.rr, cols |-> v.cc]

V_index(v, r, c) ==
    IF (r <= 0 \/ r > v.rr) \/ (c <= 0 \/ c > v.cc)
    THEN [panic |-> TRUE, r |-> 0, c |-> 0]
    ELSE [panic |-> FALSE, r |-> r - v.r + 1, c |-> c - v.c + 1]

V_At(v, m, h, r, c) ==
    LET k == V_index(v, r, c)
    IN IF k.panic THEN Panic(m, h) ELSE At(m, h, k.r, k.c)

V_SetAt(v, m, h, r, c, p) ==
    LET k == V_index(v, r, c)
    IN IF k.panic THEN Panic(m, h) ELSE SetAt(m, h, k.r, k.c, p)

V_AddAt(v, m, h, r, c, p) ==
    LET k == V_index(v, r, c)
    IN IF k.panic THEN Panic(m, h) ELSE AddAt(m, h, k.r, k.c, p)

V_MulAt(v, m, h, r, c, p) ==
    LET k == V_index(v, r, c)
    IN IF k.panic THEN Panic(m, h) ELSE MulAt(m, h, k.r, k.c, p)

NoViewCall ==
    [op |-> "none", i |-> 0, j |-> 0, x |-> 0, panic |-> FALSE, val |-> 0]

\* A concrete matrix and a view that lies inside it.
InitView ==
    /\ \E rows \in 1..MaxViewCells : \E cols \in 1..(MaxViewCells \div rows) :
          /\ \E s \in Patterns(rows, cols) :
                \E src \in ConcreteSources(EmptyMap, rows, cols, s) :
                   A = src.m /\ heap = src.h
          /\ \E r \in 1..rows, c \in 1..cols :
                \E rr \in 1..(rows - r + 1), cc \in 1..(cols - c + 1) :
                   B = View(r, c, rr, cc)
    /\ C = NoM
    /\ last = NoViewCall
    /\ nops = 0

ViewDone(op, i, j, x, res) ==
    /\ A' = res.m
    /\ heap' = Collect(res.h, Refs(res.m))
    /\ last' = [op |-> op, i |-> i, j |-> j, x |-> x,
                panic |-> res.panic, val |-> res.val]
    /\ nops' = nops + 1
    /\ UNCHANGED <<B, C>>

\* The polynomials passed to a view's methods.
ViewArgs == IF A.kind \in Binary THEN BinArgs ELSE PolyArgs

ViewAt ==
    /\ nops < MaxViewOps
    /\ \E i \in 0..(B.rr + 1), j \in 0..(B.cc + 1) :
          ViewDone("At", i, j, 0, V_At(B, A, heap, i, j))

ViewSetAt ==
    /\ nops < MaxViewOps
    /\ \E i \in 0..(B.rr + 1), j \in 0..(B.cc + 1), x \in ViewArgs :
          LET a == NewInt(heap, x)
          IN ViewDone("SetAt", i, j, x, V_SetAt(B, A, a.h, i, j, a.p))

ViewAddAt ==
    /\ nops < MaxViewOps
    /\ \E i \in 0..(B.rr + 1), j \in 0..(B.cc + 1), x \in ViewArgs :
          LET a == NewInt(heap, x)
          IN ViewDone("AddAt", i, j, x, V_AddAt(B, A, a.h, i, j, a.p))

ViewMulAt ==
    /\ nops < MaxViewOps
    /\ \E i \in 0..(B.rr + 1), j \in 0..(B.cc + 1), x \in ViewArgs :
          LET a == NewInt(heap, x)
          IN ViewDone("MulAt", i, j, x, V_MulAt(B, A, a.h, i, j, a.p))

NextView == ViewAt \/ ViewSetAt \/ ViewAddAt \/ ViewMulAt

SpecView == InitView /\ [][NextView]_vars

\* C17: a call on element (i, j) of a view with 1 <= i <= rows and
\* 1 <= j <= cols does what the same call on A's element
\* (r + i - 1, c + j - 1) does, and a call with an index outside the view
\* panics and leaves A as it was.
C17_ViewActsOnOffsetElement ==
    [][(last'.op \in {"At", "SetAt", "AddAt", "MulAt"})
          => IF last'.i \in 1..B.rr /\ last'.j \in 1..B.cc
             THEN LET a == NewInt(heap, last'.x)
                      d == CallM(last'.op, A, a.h,
                                 B.r + last'.i - 1, B.c + last'.j - 1, a.p)
                  IN /\ last'.panic = d.panic
                     /\ last'.val = d.val
                     /\ A' = d.m
                     /\ Elems(A, heap)' = Elems(d.m, d.h)
             ELSE /\ last'.panic
                  /\ A' = A
                  /\ Elems(A, heap)' = Elems(A, heap)]_vars

\* C18: when one operand of FMul is an SM or a PSM and the other is an FM of
\* any shape, the call does not panic and the rows(A) x cols(B) result has
\* at (i, j) the exclusive or over t of A(i, t) and B(t, j).
C18_SparseTimesFull ==
    (/\ last.op = "mul"
     /\ \/ A.kind \in {"SM", "PSM"} /\ B.kind = "FM"
        \/ A.kind = "FM" /\ B.kind \in {"SM", "PSM"})
      => (/\ ~last.panic
          /\ Size(C) = [rows |-> A.r, cols |-> B.c]
          /\ \A i \in 1..A.r, j \in 1..B.c :
                Value(C, heap, i, j)
                  = Parity({t \in 1..A.c : Value(A, heap, i, t) = 1
                                             /\ Value(B, heap, t, j) = 1}))

\* C19: for X a Rol or a Shl of size k and B an SM or a PSM with k rows,
\* FMul(X, B) does not panic and has at (i, j) the exclusive or over t of
\* X.At(i, t) and B(t, j): the entry of B at row t is at the rows i with
\* X.At(i, t) = 1.
C19_StructuralTimesSparse ==
    (last.op = "mul" /\ A.kind \in {"R", "S"} /\ B.kind \in {"SM", "PSM"})
      => (/\ ~last.panic
          /\ Size(C) = [rows |-> A.r, cols |-> B.c]
          /\ \A i \in 1..A.r, j \in 1..B.c :
                Value(C, heap, i, j)
                  = Parity({t \in 1..A.c : At(A, heap, i, t).val = 1
                                             /\ Value(B, heap, t, j) = 1}))

\* C20: every key of every SM and PSM (a source, the result of Sparse or
\* PSparse from any source, a matrix written by SetAt, AddAt, MulAt) is a
\* zero-based (row, col) with row < rows and col < cols of that matrix.
C20_KeysInBounds == KeysIn(A) /\ KeysIn(B) /\ KeysIn(C)

====
